---- MODULE Spec2Model ----
(***************************************************************************)
(* State-machine model of watertank.ino (WATERTANK 1.3.0): the scheduler   *)
(* loop, the four measurement drivers (RSSI, Light, Rain, Water), the      *)
(* ThingSpeak publisher, the retained (backup) memory and the resets.      *)
(*                                                                         *)
(* Numbers.  Timestamps are milliseconds of the unsigned millis() clock,   *)
(* ClockBits = 32 wide, and a float keeps FloatBits = 24 significant bits. *)
(* A clock value is held as its 32-bit word read in two's complement: a    *)
(* value below 2^31 as itself, a value c from 2^31 on as c - 2^32, so the  *)
(* last millisecond before the wrap-around is -1 and the wrap leads from   *)
(* -1 to 0.  Comparisons, differences and conversions to float are those   *)
(* of the unsigned value.  millis() counts from the start of the firmware  *)
(* and setup() returns when Blynk.begin() has connected, before the        *)
(* watchdog is started: the clock value at which setup() returns is part   *)
(* of the environment of a run (env.setupEnd).  The runs that explore the  *)
(* wrap-around have a setup() that returns shortly before it.  A state     *)
(* that lies a whole period of the clock (at least 429497 scheduler        *)
(* iterations) after the start is explored from that state on (LateStart). *)
(* The exponential filter computes in float: its state is a float <<m, e>>, *)
(* standing for m * 2^e with a signed significand of FloatBits bits, and   *)
(* every product and sum is rounded to float (to nearest, ties to even).   *)
(* A trend (float) is kept as an exact fraction <<numerator, denominator>>;*)
(* denominator 0 stands for +-infinity and <<0, 0>> for NaN.               *)
(*                                                                         *)
(* The environment of a run (duration of a scheduler iteration, time that  *)
(* passes between two readings of the clock, horizon, how the sensor       *)
(* signals behave) is fixed at power-up in env.  Spec explores the default *)
(* run; SpecRuns explores further runs with other timings and signals;     *)
(* SpecWrap explores the runs around the wrap-around of the clock and      *)
(* SpecLate, in addition, the run that is one period of the clock old.     *)
(***************************************************************************)
EXTENDS Integers, Sequences, FiniteSets, TLC

\* ------------------------------------------------------------------ bounds
MaxLoops == 45
WarmLoops == 14
MaxBoots == 2
MaxRtcStep == 1
MaxChanges == 2
MaxSpikes == 1
RerunLoops == 14
RerunChanges == 3
JitterLoops == 14
DriftTick == 5406
BurstLoops == 3
BootLoops == 2
BootResets == 3
BootGap == 3
WrapLead == 64
WrapLoops == 6
WrapWarmLoops == 2
FastLead == 256
LateLead == 369
LateLoops == 9
LongTick == 9973
LongLoops == 14
ReadLoops == 8
ReadStep == 3

\* unsigned long millis(), and the significand of a float.
ClockBits == 32
FloatBits == 24
TickMillis == 2 ^ 13

\* The greatest 32-bit word, and the base of the two halves of a word.
MaxWord == 2 ^ (ClockBits - 2) + (2 ^ (ClockBits - 2) - 1)
Limb == 2 ^ (ClockBits \div 2)

\* --------------------------------------------------------- program constants
PERIOD_MEASURE_RSSI == 30000
PERIOD_MEASURE_LIGHT == 30000
COUNT_TREND_LIGHT == 10
PERIOD_MEASURE_RAIN == 5000
COUNT_TREND_RAIN == 6
PERIOD_MEASURE_WATER == 5000
COUNT_TREND_WATER == 12
PERIOD_PUBLISH_THINGSPEAK == 60000

LIGHT_VALUE_MIN_INIT == 4096
RAIN_VALUE_MIN_INIT == 4096
WATER_VALUE_MIN_INIT == 100

FACTOR_RSSI_TENTHS == 1
FACTOR_LIGHT_TENTHS == 2
FACTOR_RAIN_TENTHS == 5
FACTOR_WATER_TENTHS == 8

LIGHT_VALUE_DARK == 8
LIGHT_VALUE_TWILIGHT == 32
LIGHT_VALUE_CLOUDY == 512
LIGHT_VALUE_CLEAR == 1024
LIGHT_VALUE_MARGIN == 2
LIGHT_STATUS_DARK == 1
LIGHT_STATUS_TWILIGHT == 2
LIGHT_STATUS_CLOUDY == 3
LIGHT_STATUS_CLEAR == 4
LIGHT_STATUS_SUNNY == 5

RAIN_VALUE_DRY == 63
RAIN_VALUE_DEW == 127
RAIN_VALUE_RAIN == 512
RAIN_VALUE_MARGIN == 4
RAIN_STATUS_DRY == 1
RAIN_STATUS_DEW == 2
RAIN_STATUS_RAIN == 3
RAIN_STATUS_SHOWER == 4

SONAR_DISTANCE_MAX == 95
WATER_TANK_EMPTY == 89
\* WATER_TREND_MARGIN = 1.5 as the fraction 3/2
WATER_TREND_MARGIN_NUM == 3
WATER_TREND_MARGIN_DEN == 2
WATER_STATUS_STABLE == 1
WATER_STATUS_FILLING == 2
WATER_STATUS_PUMPING == 3

\* Samples of one burst of the smoother (SmoothSensorData, default buffer).
BurstSize == 5

Sensors == {"Light", "Rain", "Water"}
Filters == Sensors \cup {"Rssi"}

PeriodMeasure(ch) ==
  CASE ch = "Rssi" -> PERIOD_MEASURE_RSSI
    [] ch = "Light" -> PERIOD_MEASURE_LIGHT
    [] ch = "Rain" -> PERIOD_MEASURE_RAIN
    [] ch = "Water" -> PERIOD_MEASURE_WATER

CountTrend(ch) ==
  CASE ch = "Light" -> COUNT_TREND_LIGHT
    [] ch = "Rain" -> COUNT_TREND_RAIN
    [] ch = "Water" -> COUNT_TREND_WATER

\* A factor table that gives every filter the factor of its successor.
FactorTenthsShifted(ch) ==
  CASE ch = "Rssi" -> FACTOR_LIGHT_TENTHS
    [] ch = "Light" -> FACTOR_RAIN_TENTHS
    [] ch = "Rain" -> FACTOR_WATER_TENTHS
    [] ch = "Water" -> FACTOR_RSSI_TENTHS

FactorTenths(ch) ==
  CASE ch = "Rssi" -> FACTOR_RSSI_TENTHS
    [] ch = "Light" -> FACTOR_LIGHT_TENTHS
    [] ch = "Rain" -> FACTOR_RAIN_TENTHS
    [] ch = "Water" -> FACTOR_WATER_TENTHS

\* Initial values of the retained extrema (a cold power-up).
ValueMinInit(ch) ==
  CASE ch = "Light" -> LIGHT_VALUE_MIN_INIT
    [] ch = "Rain" -> RAIN_VALUE_MIN_INIT
    [] ch = "Water" -> WATER_VALUE_MIN_INIT

ValueMaxInit(ch) == 0

\* ------------------------------------------------------------- environment
\* The raw readings a sensor can deliver in a run.  One sensor (probe) sees a
\* changing signal, the two others a steady one.
ProbeRaw(ch) ==
  CASE ch = "Light" -> {7, 10}
    [] ch = "Rain" -> {61, 66}
    [] ch = "Water" -> {85, SONAR_DISTANCE_MAX}

SteadyRaw(ch) ==
  CASE ch = "Light" -> 100
    [] ch = "Rain" -> 100
    [] ch = "Water" -> 50

RssiRaw == 0 - 60

\* Messages Blynk.run() can hand to the sketch in one iteration.
NoMsg == <<"none", "-">>
BlynkMsgs ==
  {NoMsg, <<"read", "-">>} \cup {<<"resetExtremes", ch>> : ch \in Sensors}

\* ------------------------------------------------------------------- runs
\* The default run: every scheduler iteration lasts TickMillis and the
\* clock stands still between the readings of millis() within an iteration
\* (readStep ms pass at every reading); one sensor (any of the three) sees
\* a changing signal, which sits at one of the levels raw[ch] and spikes at
\* most MaxSpikes times per burst, and keeps its first level for the first
\* `quiet` iterations.  In a run with free bursts every reading of the probe
\* is any of raw[ch], and the readings of a burst are observed.  Time.now()
\* advances by one of rtcSteps seconds from one run of setup() to the next
\* and by one of rtcTicks seconds between the two readings setup() makes.
\* setup() returns at the clock value setupEnd.
DefaultRun ==
  [setupEnd |-> 0, tick |-> TickMillis, readStep |-> 0,
   horizon |-> MaxLoops, horizonWarm |-> WarmLoops,
   maxChanges |-> MaxChanges, quiet |-> 0,
   maxBoots |-> MaxBoots, probes |-> Sensors,
   steady |-> [ch \in Sensors |-> SteadyRaw(ch)],
   raw |-> [ch \in Sensors |-> ProbeRaw(ch)], free |-> FALSE,
   rtcSteps |-> 1..MaxRtcStep, rtcTicks |-> {0}]

\* More changes of the Rain signal over a shorter horizon, with a warm reset.
RerunRun ==
  [DefaultRun EXCEPT !.horizon = RerunLoops, !.horizonWarm = RerunLoops,
                     !.maxChanges = RerunChanges,
                     !.probes = {"Rain"}]

\* Iterations of DriftTick ms: the timestamps are not multiples of a power
\* of two.  A short run with a signal change.
JitterRun ==
  [DefaultRun EXCEPT !.tick = DriftTick, !.horizon = JitterLoops,
                     !.maxChanges = 1, !.maxBoots = 1]

\* Iterations of LongTick ms (an odd number below TIMEOUT_WATCHDOG) until
\* millis() has passed 2^FloatBits, the Rain signal changing only then.
LongRun ==
  [DefaultRun EXCEPT !.tick = LongTick,
                     !.quiet = (2 ^ FloatBits) \div LongTick + 1,
                     !.horizon = (2 ^ FloatBits) \div LongTick + 1 + LongLoops,
                     !.maxChanges = 1, !.maxBoots = 1, !.probes = {"Rain"}]

\* The clock moves by ReadStep ms at every reading of millis().
ReadRun ==
  [DefaultRun EXCEPT !.tick = PERIOD_MEASURE_RAIN, !.readStep = ReadStep,
                     !.horizon = PERIOD_PUBLISH_THINGSPEAK
                                   \div PERIOD_MEASURE_RAIN + ReadLoops,
                     !.maxChanges = 1, !.maxBoots = 1, !.probes = {"Rain"}]

\* ------------------------------------------ runs around the wrap-around
\* setup() returns WrapLead iterations before the wrap-around of millis(),
\* which the run passes, with a changing Rain signal; a warm reset is
\* followed by a short run.
WrapRun ==
  [DefaultRun EXCEPT !.setupEnd = 0 - WrapLead * TickMillis,
                     !.horizon = WrapLead + WrapLoops,
                     !.horizonWarm = WrapWarmLoops, !.maxChanges = 1,
                     !.probes = {"Rain"}]

\* Iterations shorter than every cadence, from FastLead iterations before
\* the wrap-around on: the loop passes millis() = 0.
FastTick == 2 ^ 11
FastRun ==
  [DefaultRun EXCEPT !.setupEnd = 0 - FastLead * FastTick,
                     !.tick = FastTick,
                     !.horizon = FastLead + 2,
                     !.maxChanges = 0, !.maxBoots = 1]

WrapRuns == {WrapRun, FastRun}

\* The number of iterations of t ms after which millis() has gone through
\* one whole period of 2^32 ms, and by how many ms it then has passed it.
PeriodLoops(t) ==
  2 * (MaxWord \div t) + (2 * (MaxWord % t) + 2) \div t + 1
Overshoot(t) == t - ((2 * (MaxWord % t) + 2) % t)

\* A run over more than one period of the clock, with steady signals, in
\* iterations of LateTick ms: a whole number of them passes the period by
\* Overshoot(LateTick) = 32 ms, less than the spacing of the floats at the
\* top of the clock's range (256 ms).  setup() returns one iteration before
\* the clock value that lies LateLead float spacings before the
\* wrap-around, so the first measurement falls on that value and 11
\* further iterations pass before the wrap-around.  The run is explored
\* from its state one iteration short of a whole period (LateStart) on, for
\* LateLoops iterations.
LateTick == TickMillis + 2 ^ 4
LateRun ==
  [DefaultRun EXCEPT !.setupEnd = 0 - (LateLead * 2 ^ 8 + LateTick),
                     !.tick = LateTick,
                     !.horizon = PeriodLoops(LateTick) - 1 + LateLoops,
                     !.maxChanges = 0, !.maxBoots = 1]

\* Steady Light and Rain signals at and next to every bucket threshold and
\* at the ends of the ADC range, until the first trend recomputation.
SweepRaw ==
  {0, 4095} \cup
  UNION {{t, t + 1} : t \in {LIGHT_VALUE_DARK, LIGHT_VALUE_TWILIGHT,
                              LIGHT_VALUE_CLOUDY, LIGHT_VALUE_CLEAR,
                              RAIN_VALUE_DRY, RAIN_VALUE_DEW, RAIN_VALUE_RAIN}}
SweepRuns ==
  {[DefaultRun EXCEPT !.tick = PERIOD_MEASURE_LIGHT,
                      !.horizon = COUNT_TREND_LIGHT + 2,
                      !.maxChanges = 0, !.maxBoots = 1,
                      !.probes = {"Water"},
                      !.steady = [ch \in Sensors |->
                                    IF ch = "Water" THEN SteadyRaw(ch) ELSE r]]
     : r \in SweepRaw}

\* Free bursts: one measurement of readings that need not agree, and
\* BurstLoops consecutive measurements of readings of two values.
BurstRaw(ch) ==
  CASE ch = "Light" -> {10, 11, 12, 13}
    [] ch = "Rain" -> {0, 63, 4095}
    [] ch = "Water" -> {2, 85, SONAR_DISTANCE_MAX}

BurstRun ==
  [DefaultRun EXCEPT !.horizon = 1, !.maxChanges = 0, !.maxBoots = 1,
                     !.raw = [ch \in Sensors |-> BurstRaw(ch)],
                     !.free = TRUE]

BurstAgainRun ==
  [DefaultRun EXCEPT !.horizon = BurstLoops, !.maxChanges = 0,
                     !.maxBoots = 1, !.probes = {"Rain", "Water"},
                     !.free = TRUE]

\* Several warm resets after short runs, the real-time clock advancing by
\* different amounts between the boots (a boot within the second of the
\* boot before it included) and between the two readings of setup().
BootRun ==
  [DefaultRun EXCEPT !.horizon = BootLoops, !.horizonWarm = BootLoops,
                     !.maxChanges = 0, !.maxBoots = BootResets + 1,
                     !.probes = {"Light"},
                     !.rtcSteps = {0, 1 + BootGap}, !.rtcTicks = {0, 1}]

Runs ==
  {RerunRun, JitterRun, LongRun, ReadRun, BurstRun, BurstAgainRun, BootRun}
    \cup SweepRuns

VARIABLES
  probe,          \* environment: the sensor whose signal changes in this run
  level,          \* environment: the level the probe's signal has settled at
  changes,        \* environment: how often that level has changed
  env,            \* environment: timing and signals of this run, fixed
  pc,             \* position of the sketch: setup, loop() and process() steps
  now,            \* millis()
  rtc,            \* Time.now(), seconds
  loops,          \* scheduler iterations of this process run (horizon)
  blynkMsg,       \* message received by Blynk.run(), until dispatched
  bootCount, bootTimeLast, bootRunPeriod,   \* retained
  valueMin, valueMax, status,               \* retained, per sensor
  value, trend,                             \* lightValue.., lightTrend..
  rssiValue,
  efInit, efValue,                          \* ExponentialFilter objects
  smooth,                                   \* SmoothSensorData buffer
  tsMeasure,                                \* static tsMeasure, per driver
  tsMeasureOld, cntMeasure, valueOld, statusOld,   \* statics, per sensor
  tsPublish,                                \* static of publishThingspeak
  ledWaterPump,                             \* WidgetLED state
  notified,       \* status carried by the last push notification, per sensor
  bootLog,        \* history: Time.now() at every run of setup()
  ticked,         \* history: the watchdog tickle and the drivers ticked in
                  \* the scheduler iteration under way, in order
  sampled,        \* <<driver, raw readings taken, medians read>> of the
                  \* measurement made in the step that led here, or <<>>
  pushed,         \* the sensor whose driver sent a push notification in the
                  \* step that led here, or "none"
  nMeasure,       \* history: measurement cycles of this run, per sensor
  nTrend,         \* history: trend recomputations of this run, per sensor
  nPublish,       \* history: ThingSpeak publications of this run
  evSeen,         \* history: a status-change event has fired, per sensor
  evValue,        \* history: the filtered value at the last event
  evPrev,         \* history: the filtered value at the event before it, if any
  burstSeen,      \* history: readings and median of the last free burst
  evLo, evHi      \* history: least and greatest filtered value measured
                  \* since the last event, that event's value included

retained == <<bootCount, bootTimeLast, bootRunPeriod, valueMin, valueMax, status>>
transient == <<value, trend, rssiValue, efInit, efValue, smooth, tsMeasure,
               tsMeasureOld, cntMeasure, valueOld, statusOld, tsPublish>>
history == <<notified, nMeasure, nTrend, nPublish, ledWaterPump, evSeen,
             evValue, evPrev, burstSeen, evLo, evHi>>
vars == <<probe, level, changes, env, pc, now, rtc, loops, blynkMsg, retained,
          transient, bootLog, ticked, sampled, pushed, history>>

\* ------------------------------------------------------------------ helpers
Abs(x) == IF x < 0 THEN 0 - x ELSE x

RECURSIVE Gcd(_, _)
Gcd(a, b) == IF b = 0 THEN a ELSE Gcd(b, a % b)

\* The clock value d ms after the clock value t, 0 <= d < 2^31: unsigned
\* addition modulo 2^32 on the words.
ClockAdd(t, d) ==
  IF t > MaxWord - d THEN (t - MaxWord - 1) + (d - MaxWord - 1) ELSE t + d

\* "a > b" of two unsigned long held as words.
ClockGreater(a, b) == IF (a < 0) = (b < 0) THEN a > b ELSE a < 0

\* "t - t0 >= p" in unsigned arithmetic modulo 2^32, for a period p with
\* 0 < p < 2^31.
ElapsedAtLeast(t, t0, p) ==
  IF (t < 0) = (t0 < 0) THEN t < t0 \/ t - t0 >= p
  ELSE IF t0 < 0 THEN t - p >= t0
  ELSE (t + MaxWord) + 1 >= (p - 1) - (MaxWord - t0)

\* The unsigned value of a word as <<high half, low half>>.
Wide(w) == <<((w - (w % Limb)) \div Limb) % Limb, w % Limb>>

RECURSIVE BitLength(_)
BitLength(x) == IF x = 0 THEN 0 ELSE 1 + BitLength(x \div 2)

\* Rounding to float of the non-negative integer hl[1] * Limb + hl[2]: the
\* FloatBits most significant bits are kept, the rest is rounded to
\* nearest, ties to even.  A float is <<m, e>>, standing for m * 2^e.
RoundToFloat(hl) ==
  LET k == BitLength(hl[1])
      e == k - (FloatBits - ClockBits \div 2)
      ulp == 2 ^ e
      q == hl[1] * (Limb \div ulp) + hl[2] \div ulp
      r == hl[2] % ulp
  IN IF e <= 0 THEN <<hl[1] * Limb + hl[2], 0>>
     ELSE IF 2 * r > ulp \/ (2 * r = ulp /\ q % 2 = 1) THEN <<q + 1, e>>
     ELSE <<q, e>>

\* Conversion of an unsigned long to float.
ToFloat(w) == RoundToFloat(Wide(w))

\* The integer m * 2^e of a float as <<high half, low half>>.
WideOf(f) ==
  LET cut == 2 ^ (ClockBits \div 2 - f[2])
  IN <<f[1] \div cut, (f[1] % cut) * (2 ^ f[2])>>

\* The float difference a - b of two non-negative floats, as
\* <<sign, <<m, e>>>>: the exact difference rounded to float.
FloatDiff(a, b) ==
  LET x == WideOf(a)
      y == WideOf(b)
      less == x[1] < y[1] \/ (x[1] = y[1] /\ x[2] < y[2])
      hi == IF less THEN y ELSE x
      lo == IF less THEN x ELSE y
      d == IF hi[2] >= lo[2] THEN <<hi[1] - lo[1], hi[2] - lo[2]>>
           ELSE <<hi[1] - lo[1] - 1, hi[2] + Limb - lo[2]>>
  IN <<IF less THEN 0 - 1 ELSE IF x = y THEN 0 ELSE 1, RoundToFloat(d)>>

\* The float quotient n/d in lowest terms, denominator >= 0.  Division by zero gives
\* +infinity <<1, 0>>, -infinity <<-1, 0>> or, for 0/0, NaN <<0, 0>>.
Frac(n, d) ==
  IF n = 0 /\ d = 0 THEN <<0, 0>>
  ELSE LET g == Gcd(Abs(n), Abs(d))
           sg == IF d < 0 THEN 0 - 1 ELSE 1
       IN <<sg * (n \div g), sg * (d \div g)>>

IsNaN(p) == p[1] = 0 /\ p[2] = 0

\* Comparisons of floats: false as soon as one side is NaN.
FracLess(p, q) == ~IsNaN(p) /\ ~IsNaN(q) /\ p[1] * q[2] < q[1] * p[2]
FracLeq(p, q) == ~IsNaN(p) /\ ~IsNaN(q) /\ p[1] * q[2] <= q[1] * p[2]
FracAbs(p) == <<Abs(p[1]), p[2]>>
FracNeg(p) == <<0 - p[1], p[2]>>
WATER_TREND_MARGIN == <<WATER_TREND_MARGIN_NUM, WATER_TREND_MARGIN_DEN>>


\* ---------------------------------------------------------------- smoother
\* SmoothSensorData::registerData: stores one sample; TRUE while the burst
\* still needs samples.  Result: <<buffer, more>>.
registerData(buf, x) ==
  LET b == Append(buf, x) IN <<b, Len(b) < BurstSize>>

\* A burst loop that does not look at the answer of registerData and takes
\* every reading on offer.
burstLoopUnchecked(buf, reads, i) ==
  <<buf \o SubSeq(reads, i, Len(reads)), Len(reads)>>

\* A burst loop that reads the sensor once and registers that reading for
\* the whole burst.
burstLoopOneRead(buf, reads, i) ==
  <<buf \o [j \in 1..(BurstSize - Len(buf)) |-> reads[i]],
    i + BurstSize - Len(buf) - 1>>

\* A burst loop that stops one reading before the burst is complete.
burstLoopShort(buf, reads, i) ==
  <<buf \o SubSeq(reads, i, i + BurstSize - Len(buf) - 2),
    i + BurstSize - Len(buf) - 2>>

\* while(smooth.registerData(read())): feeds reads[i], reads[i+1], ... until
\* registerData answers FALSE.  Result: <<buffer, number of reads consumed>>.
RECURSIVE burstLoop(_, _, _)
burstLoop(buf, reads, i) ==
  LET r == registerData(buf, reads[i])
  IN IF r[2] /\ i < Len(reads) THEN burstLoop(r[1], reads, i + 1)
     ELSE <<r[1], i>>

\* SmoothSensorData: a completed burst is released when its median has been
\* read; the next registerData starts a new burst.
releaseBuffer(buf) == IF Len(buf) >= BurstSize THEN <<>> ELSE buf

\* SmoothSensorData::getMedian: the middle of the sorted burst.
getMedian(buf) ==
  CHOOSE m \in {buf[i] : i \in 1..Len(buf)} :
    /\ Cardinality({i \in 1..Len(buf) : buf[i] < m}) <= (Len(buf) - 1) \div 2
    /\ Cardinality({i \in 1..Len(buf) : buf[i] <= m}) > (Len(buf) - 1) \div 2

\* ------------------------------------------------------- float arithmetic
\* A float of the filter is <<m, e>>, standing for m * 2^e: zero is <<0, 0>>,
\* every other float has 2^(FloatBits - 1) <= |m| < 2^FloatBits.  The values
\* of the sketch are far from the limits of a float's exponent, which are
\* not modelled.  An intermediate result is handed on as an argument.
Sign(x) == IF x < 0 THEN 0 - 1 ELSE IF x = 0 THEN 0 ELSE 1

\* The greatest significand plus one, and the least significand of a float
\* other than zero.
TopBit == 2 ^ FloatBits
LowBit == 2 ^ (FloatBits - 1)

\* The float s * n * 2^e, for a sign s and an n of k bits, 0 < k < FloatBits.
Normal(s, n, k, e) == <<s * n * 2 ^ (FloatBits - k), e - (FloatBits - k)>>

\* The float s * n * 2^e, for a sign s and 0 <= n <= 2^FloatBits.
FloatOf(s, n, e) ==
  IF n = 0 \/ s = 0 THEN <<0, 0>>
  ELSE IF n >= TopBit THEN <<s * (n \div 2), e + 1>>
  ELSE IF n >= LowBit THEN <<s * n, e>>
  ELSE Normal(s, n, BitLength(n), e)

\* Rounding to nearest, ties to even: the quotient q of a division by ulp
\* that left the remainder r.
RoundUp(q, r, ulp) ==
  IF 2 * r > ulp \/ (2 * r = ulp /\ q % 2 = 1) THEN q + 1 ELSE q

\* n / 2^sh rounded to an integer.
RoundShift(n, sh) == RoundUp(n \div 2 ^ sh, n % 2 ^ sh, 2 ^ sh)

\* Conversion of an int to float, exact for |n| < 2^FloatBits.
IntToFloat(n) == FloatOf(Sign(n), Abs(n), 0)

\* The float nearest to the decimal fraction t/10, 0 < t < 10: a constant
\* written as 0.1 ... 0.9 and stored as float.
RECURSIVE TenthBits(_, _)
TenthBits(t, k) ==
  IF (t * 2 ^ k) \div 10 >= LowBit THEN k ELSE TenthBits(t, k + 1)

TenthShifted(n, k) == FloatOf(1, RoundUp(n \div 10, n % 10, 10), 0 - k)
TenthAt(t, k) == TenthShifted(t * 2 ^ k, k)
FloatOfTenths(t) == TenthAt(t, TenthBits(t, 0))

FloatNeg(a) == <<0 - a[1], a[2]>>

\* The float s * n * 2^e for an n of k bits, or of fewer than FloatBits
\* bits and k = FloatBits: n is rounded to FloatBits bits.
RoundBits(s, n, k, e) ==
  IF k > FloatBits
  THEN FloatOf(s, RoundShift(n, k - FloatBits), e + (k - FloatBits))
  ELSE FloatOf(s, n, e)

RoundSum(sum, e) ==
  RoundBits(Sign(sum), Abs(sum), FloatBits + BitLength(Abs(sum) \div TopBit), e)

\* n / cut cut off, with a last bit that says whether anything was cut off
\* (sticky bit).
Shifted(n, cut) ==
  IF n % cut # 0 /\ (n \div cut) % 2 = 0 THEN n \div cut + 1 ELSE n \div cut

\* big + small for floats whose exponents differ by d >= 0: small is
\* aligned to three bits below the last bit of big.
AddAligned(big, small, d) ==
  RoundSum(8 * big[1]
           + Sign(small[1])
             * Shifted(8 * Abs(small[1]),
                       2 ^ (IF d < FloatBits + 4 THEN d ELSE FloatBits + 4)),
           big[2] - 3)

\* The float sum a + b: the exact sum rounded to float.
FloatAdd(a, b) ==
  IF a[1] = 0 THEN b
  ELSE IF b[1] = 0 THEN a
  ELSE IF a[2] >= b[2] THEN AddAligned(a, b, a[2] - b[2])
  ELSE AddAligned(b, a, b[2] - a[2])

\* The float s * (hi * 2^FloatBits + lo) * 2^e, hi of k bits.
RoundWide(s, hi, lo, k, e) ==
  FloatOf(s, RoundUp(hi * 2 ^ (FloatBits - k) + lo \div 2 ^ k, lo % 2 ^ k, 2 ^ k),
          e + k)

\* The product of two significands given in halves of FloatBits / 2 bits,
\* x1 * Half + x0 and y1 * Half + y0, as hi * 2^FloatBits + lo.
Half == 2 ^ (FloatBits \div 2)
WideBits(hi) ==
  IF hi >= LowBit THEN FloatBits
  ELSE IF 2 * hi >= LowBit THEN FloatBits - 1
  ELSE BitLength(hi)
MulJoin(s, hi, t, e) ==
  RoundWide(s, hi + t \div TopBit, t % TopBit, WideBits(hi + t \div TopBit), e)
MulWide(s, top, mid, low, e) ==
  MulJoin(s, top + mid \div Half, (mid % Half) * Half + low, e)
MulHalves(s, x1, x0, y1, y0, e) ==
  MulWide(s, x1 * y1, x1 * y0 + x0 * y1, x0 * y0, e)

\* The float product a * b: the exact product rounded to float.
FloatMul(a, b) ==
  MulHalves(Sign(a[1]) * Sign(b[1]),
            Abs(a[1]) \div Half, Abs(a[1]) % Half,
            Abs(b[1]) \div Half, Abs(b[1]) % Half, a[2] + b[2])

\* ------------------------------------------------------------------ filter
\* const float FACTOR_... = 0.1, 0.2, 0.5, 0.8 (lines 160-163), and what
\* the filter computes of it as 1 - factor.
Factor == [f \in Filters |-> FloatOfTenths(FactorTenths(f))]
OneMinusFactor == [f \in Filters |-> FloatAdd(IntToFloat(1), FloatNeg(Factor[f]))]

\* ExponentialFilter::getValue: the first sample seeds the state, later
\* state = factor * sample + (1 - factor) * state, computed in float.
getValue(ch, isInit, state, sample) ==
  IF ~isInit THEN IntToFloat(sample)
  ELSE FloatAdd(FloatMul(Factor[ch], IntToFloat(sample)),
                FloatMul(OneMinusFactor[ch], state))

\* Assignment of the filter's float result to an int variable: truncation
\* toward zero.
ToInt(state) ==
  IF state[2] >= 0 THEN state[1] * 2 ^ state[2]
  ELSE IF state[2] <= 0 - FloatBits THEN 0
  ELSE Sign(state[1]) * (Abs(state[1]) \div 2 ^ (0 - state[2]))

\* A minimum that is only ever lowered.
ExtremaMinPlain(ch, mn, mx, v) == IF mn > v THEN v ELSE mn

\* ------------------------------------------------------ statistics, status
\* Lines 262, 326, 389-390: the new minimum.
ExtremaMin(ch, mn, mx, v) ==
  LET m0 == IF ch = "Water" /\ mn < 0 THEN mx ELSE mn
  IN IF m0 > v THEN v ELSE m0

\* Lines 263, 327, 391: the new maximum.
ExtremaMax(ch, mx, v) == IF mx < v THEN v ELSE mx

\* 6e4 * ((float)value - (float)valueOld)
\*     / ((float)tsMeasure - (float)tsMeasureOld), for ts > tsOld: both
\* timestamps are converted to float before they are subtracted.  The
\* quotient is kept exact; its own rounding to float is below 1e-7 of it.
TrendOf(v, vOld, ts, tsOld) ==
  LET d == FloatDiff(ToFloat(ts), ToFloat(tsOld))
      sh == IF d[2][2] < 5 THEN d[2][2] ELSE 5
  IN Frac((60000 \div 2 ^ sh) * (v - vOld),
          d[1] * d[2][1] * 2 ^ (d[2][2] - sh))

\* A Light classification with strict comparisons.
LightStatusOfStrict(v) ==
  IF v < LIGHT_VALUE_DARK THEN LIGHT_STATUS_DARK
  ELSE IF v < LIGHT_VALUE_TWILIGHT THEN LIGHT_STATUS_TWILIGHT
  ELSE IF v < LIGHT_VALUE_CLOUDY THEN LIGHT_STATUS_CLOUDY
  ELSE IF v < LIGHT_VALUE_CLEAR THEN LIGHT_STATUS_CLEAR
  ELSE LIGHT_STATUS_SUNNY

LightStatusOf(v) ==
  IF v <= LIGHT_VALUE_DARK THEN LIGHT_STATUS_DARK
  ELSE IF v <= LIGHT_VALUE_TWILIGHT THEN LIGHT_STATUS_TWILIGHT
  ELSE IF v <= LIGHT_VALUE_CLOUDY THEN LIGHT_STATUS_CLOUDY
  ELSE IF v <= LIGHT_VALUE_CLEAR THEN LIGHT_STATUS_CLEAR
  ELSE LIGHT_STATUS_SUNNY

RainStatusOf(v) ==
  IF v <= RAIN_VALUE_DRY THEN RAIN_STATUS_DRY
  ELSE IF v <= RAIN_VALUE_DEW THEN RAIN_STATUS_DEW
  ELSE IF v <= RAIN_VALUE_RAIN THEN RAIN_STATUS_RAIN
  ELSE RAIN_STATUS_SHOWER

\* Three independent if statements, in the order of the source.
WaterStatusOf(tr, old) ==
  LET s1 == IF FracLeq(FracAbs(tr), WATER_TREND_MARGIN)
            THEN WATER_STATUS_STABLE ELSE old
      s2 == IF FracLess(WATER_TREND_MARGIN, tr)
            THEN WATER_STATUS_FILLING ELSE s1
      s3 == IF FracLess(tr, FracNeg(WATER_TREND_MARGIN))
            THEN WATER_STATUS_PUMPING ELSE s2
  IN s3

StatusOf(ch, v, tr, old) ==
  CASE ch = "Light" -> LightStatusOf(v)
    [] ch = "Rain" -> RainStatusOf(v)
    [] ch = "Water" -> WaterStatusOf(tr, old)

\* A notification condition without the hysteresis margin.
StatusChangedNoMargin(ch, sOld, s, diff) == sOld # s

\* A notification condition that takes either test as sufficient.
StatusChangedEither(ch, sOld, s, diff) ==
  CASE ch = "Light" -> sOld # s \/ diff >= LIGHT_VALUE_MARGIN
    [] ch = "Rain" -> sOld # s \/ diff >= RAIN_VALUE_MARGIN
    [] ch = "Water" -> sOld # s

\* A notification condition that never compares the statuses.
StatusChangedByMargin(ch, sOld, s, diff) ==
  CASE ch = "Light" -> diff >= LIGHT_VALUE_MARGIN
    [] ch = "Rain" -> diff >= RAIN_VALUE_MARGIN
    [] ch = "Water" -> TRUE

\* The condition of "Notify at status change" (lines 284, 346, 402); diff is
\* abs(value - valueOld) taken before valueOld is rebound.
StatusChanged(ch, sOld, s, diff) ==
  CASE ch = "Light" -> sOld # s /\ diff >= LIGHT_VALUE_MARGIN
    [] ch = "Rain" -> sOld # s /\ diff >= RAIN_VALUE_MARGIN
    [] ch = "Water" -> sOld # s

\* BLYNK_NOTIFY_RAIN and BLYNK_NOTIFY_WATER are defined, BLYNK_NOTIFY_LIGHT
\* is not: only Rain and Water push a notification.
NotifyEnabled(ch) == ch \in {"Rain", "Water"}

\* The cadence test of every driver, for the reading t of millis().
Due(ch, t) ==
  ElapsedAtLeast(t, tsMeasure[ch], PeriodMeasure(ch)) \/ tsMeasure[ch] = 0

\* The level most readings of a burst show.
LevelOf(reads) ==
  CHOOSE l \in {reads[i] : i \in 1..Len(reads)} :
    2 * Cardinality({i \in 1..Len(reads) : reads[i] = l}) > Len(reads)

\* The bursts of raw readings a sensor can deliver now.  A steady sensor
\* repeats one value.  The probe's signal sits at a level, with at most
\* MaxSpikes readings of a burst off that level, and moves to another level
\* at most MaxChanges times.
Bursts(ch) ==
  IF probe # ch THEN {[i \in 1..BurstSize |-> env.steady[ch]]}
  ELSE IF env.free THEN [1..BurstSize -> env.raw[ch]]
  ELSE {b \in [1..BurstSize -> env.raw[ch]] :
          \E l \in env.raw[ch] :
            /\ l = level
               \/ (changes < env.maxChanges /\ loops >= env.quiet)
            /\ Cardinality({i \in 1..BurstSize : b[i] # l}) <= MaxSpikes}

\* The sensor can be read as often as the burst loop asks: beyond the
\* readings of one burst it delivers the same readings again.
ReadsOnOffer(reads) == reads \o reads

\* The value handed to the filter.
FilterInput(ch, median) ==
  IF ch = "Water" THEN WATER_TANK_EMPTY - median ELSE median


\* ------------------------------------------------------------ initial state
\* Non-retained globals and statics as the C++ runtime zero-initialises them
\* at every start of the firmware.  The static statusOld of each driver is
\* initialised from the retained status when the driver is first called; no
\* code writes the status before that call, so it is taken here.
TransientInit(st) ==
  /\ value = [ch \in Sensors |-> 0]
  /\ trend = [ch \in Sensors |-> <<0, 1>>]
  /\ rssiValue = 0
  /\ efInit = [f \in Filters |-> FALSE]
  /\ efValue = [f \in Filters |-> <<0, 0>>]
  /\ smooth = <<>>
  /\ tsMeasure = [f \in Filters |-> 0]
  /\ tsMeasureOld = [ch \in Sensors |-> 0]
  /\ cntMeasure = [ch \in Sensors |-> 0]
  /\ valueOld = [ch \in Sensors |-> 0]
  /\ statusOld = st
  /\ tsPublish = 0

\* The same start of the firmware as a step, the static statusOld apart.
TransientZero ==
  /\ value' = [ch \in Sensors |-> 0]
  /\ trend' = [ch \in Sensors |-> <<0, 1>>]
  /\ rssiValue' = 0
  /\ efInit' = [f \in Filters |-> FALSE]
  /\ efValue' = [f \in Filters |-> <<0, 0>>]
  /\ smooth' = <<>>
  /\ tsMeasure' = [f \in Filters |-> 0]
  /\ tsMeasureOld' = [ch \in Sensors |-> 0]
  /\ cntMeasure' = [ch \in Sensors |-> 0]
  /\ valueOld' = [ch \in Sensors |-> 0]
  /\ tsPublish' = 0

\* A start of the firmware in which the static statusOld has no initialiser.
TransientResetStatusOldZero ==
  /\ TransientZero
  /\ statusOld' = [ch \in Sensors |-> 0]

\* A reset: statusOld is initialised from the retained status as the reset
\* finds it.
TransientReset ==
  /\ TransientZero
  /\ statusOld' = status

\* Cold power-up: the retained variables take their initialisers (lines
\* 153-157).
PowerUp ==
  /\ probe \in env.probes
  /\ level \in (IF env.free THEN {SteadyRaw(probe)} ELSE env.raw[probe])
  /\ changes = 0
  /\ pc = "setup"
  /\ now = 0
  /\ rtc = 0
  /\ loops = 0
  /\ blynkMsg = NoMsg
  /\ bootCount = 0
  /\ bootTimeLast = 0
  /\ bootRunPeriod = 0
  /\ valueMin = [ch \in Sensors |-> ValueMinInit(ch)]
  /\ valueMax = [ch \in Sensors |-> ValueMaxInit(ch)]
  /\ status = [ch \in Sensors |-> 0]
  /\ TransientInit([ch \in Sensors |-> 0])
  /\ ledWaterPump = "unset"
  /\ notified = [ch \in Sensors |-> 0]
  /\ pushed = "none"
  /\ ticked = <<>>
  /\ sampled = <<>>
  /\ bootLog = <<>>
  /\ nMeasure = [ch \in Sensors |-> 0]
  /\ nTrend = [ch \in Sensors |-> 0]
  /\ nPublish = 0
  /\ evSeen = [ch \in Sensors |-> FALSE]
  /\ evValue = [ch \in Sensors |-> 0]
  /\ evPrev = [ch \in Sensors |-> <<>>]
  /\ burstSeen = <<>>
  /\ evLo = [ch \in Sensors |-> 0]
  /\ evHi = [ch \in Sensors |-> 0]

Init == env = DefaultRun /\ PowerUp

InitRuns == env \in Runs /\ PowerUp

\* The state of LateRun after PeriodLoops(LateTick) - 1 iterations, at the
\* top of loop(), as the actions produce it from PowerUp.  Every iteration
\* has measured Rain and Water, every fourth Rssi and Light, every eighth
\* has published, the last one all of them.  Before the wrap-around Water
\* has been seeded and counted 11 times, Rain has recomputed its trend once
\* (in iteration 7) and counted 5 times since, Light has been counted
\* twice; since the wrap-around no timestamp has exceeded the remembered
\* ones.  No status-change event has fired.
LateStart ==
  /\ env = LateRun
  /\ probe \in env.probes
  /\ level \in env.raw[probe]
  /\ changes = 0
  /\ pc = "loop"
  /\ now = env.setupEnd + Overshoot(env.tick) - env.tick
  /\ rtc = 1
  /\ loops = PeriodLoops(env.tick) - 1
  /\ blynkMsg = NoMsg
  /\ bootCount = 1
  /\ bootTimeLast = 1
  /\ bootRunPeriod = 0
  /\ value = [ch \in Sensors |->
                FilterInput(ch, IF probe = ch THEN level ELSE env.steady[ch])]
  /\ valueMin = [ch \in Sensors |->
                   IF value[ch] < ValueMinInit(ch) THEN value[ch]
                   ELSE ValueMinInit(ch)]
  /\ valueMax = [ch \in Sensors |->
                   IF value[ch] > ValueMaxInit(ch) THEN value[ch]
                   ELSE ValueMaxInit(ch)]
  /\ status = [ch \in Sensors |->
                 IF ch = "Rain" THEN RainStatusOf(value[ch]) ELSE 0]
  /\ trend = [ch \in Sensors |-> <<0, 1>>]
  /\ rssiValue = RssiRaw
  /\ efInit = [f \in Filters |-> TRUE]
  /\ efValue = [f \in Filters |->
                  IntToFloat(IF f = "Rssi" THEN RssiRaw ELSE value[f])]
  /\ smooth = <<>>
  /\ tsMeasure = [f \in Filters |-> now]
  /\ tsMeasureOld = [ch \in Sensors |->
                       env.setupEnd
                         + (IF ch = "Rain" THEN 1 + COUNT_TREND_RAIN ELSE 1)
                             * env.tick]
  /\ cntMeasure = [ch \in Sensors |->
                     CASE ch = "Light" -> 2
                       [] ch = "Rain" -> COUNT_TREND_RAIN - 1
                       [] ch = "Water" -> COUNT_TREND_WATER - 1]
  /\ valueOld = value
  /\ statusOld = [ch \in Sensors |-> 0]
  /\ tsPublish = now
  /\ ledWaterPump = "unset"
  /\ notified = [ch \in Sensors |-> 0]
  /\ pushed = "none"
  /\ ticked = <<>>
  /\ sampled = <<>>
  /\ bootLog = <<<<1, 1>>>>
  /\ nMeasure = [ch \in Sensors |->
                   IF ch = "Light" THEN (loops + 3) \div 4 ELSE loops]
  /\ nTrend = [ch \in Sensors |-> IF ch = "Rain" THEN 1 ELSE 0]
  /\ nPublish = (loops + 7) \div 8
  /\ evSeen = [ch \in Sensors |-> FALSE]
  /\ evValue = [ch \in Sensors |-> 0]
  /\ evPrev = [ch \in Sensors |-> <<>>]
  /\ burstSeen = <<>>
  /\ evLo = value
  /\ evHi = value

InitWrap == env \in WrapRuns /\ PowerUp

InitLate == InitWrap \/ LateStart

\* ------------------------------------------------------------------ actions
\* A setup() that computes the run period at every boot, the first too.
setupPeriodAlways ==
  /\ pc = "setup"
  /\ \E d \in env.rtcSteps, e \in env.rtcTicks :
       /\ bootRunPeriod' = (rtc + d) - bootTimeLast
       /\ bootTimeLast' = rtc + d + e
       /\ rtc' = rtc + d + e
       /\ bootLog' = Append(bootLog, <<rtc + d, rtc + d + e>>)
  /\ bootCount' = bootCount + 1
  /\ pc' = "loop"
  /\ now' = env.setupEnd
  /\ UNCHANGED <<probe, env, level, changes, loops, blynkMsg, valueMin,
                 valueMax, status,
                 transient, history>>
  /\ pushed' = "none"
  /\ ticked' = ticked
  /\ sampled' = <<>>

\* setup(): boot bookkeeping.  Time.now() is read twice: for the run period
\* (line 208) d seconds after the reading of the boot before, and for the
\* time of this boot (line 209) e seconds later.  Blynk.begin() (line 216)
\* returns when the connection is made; millis() is then at env.setupEnd.
setup ==
  /\ pc = "setup"
  /\ \E d \in env.rtcSteps, e \in env.rtcTicks :
       /\ bootRunPeriod' = IF bootCount > 0 THEN (rtc + d) - bootTimeLast
                           ELSE bootRunPeriod
       /\ bootTimeLast' = rtc + d + e
       /\ rtc' = rtc + d + e
       /\ bootLog' = Append(bootLog, <<rtc + d, rtc + d + e>>)
  /\ bootCount' = bootCount + 1
  /\ pc' = "loop"
  /\ now' = env.setupEnd
  /\ UNCHANGED <<probe, env, level, changes, loops, blynkMsg, valueMin,
                 valueMax, status,
                 transient, history>>
  /\ pushed' = "none"
  /\ ticked' = ticked
  /\ sampled' = <<>>

\* loop(): Watchdogs::tickle().  The time of one iteration passes here.
loop ==
  /\ pc = "loop"
  /\ loops < (IF bootCount > 1 THEN env.horizonWarm ELSE env.horizon)
  /\ loops' = loops + 1
  /\ now' = ClockAdd(now, env.tick)
  /\ pc' = "blynk"
  /\ UNCHANGED <<probe, env, level, changes, rtc, blynkMsg, retained, transient, history>>
  /\ pushed' = "none"
  /\ ticked' = Append(ticked, "tickle")
  /\ bootLog' = bootLog
  /\ sampled' = <<>>

\* Blynk.run(): a message of the mobile application may have arrived.
BlynkReceive ==
  /\ pc = "blynk"
  /\ blynkMsg' \in BlynkMsgs
  /\ pc' = "dispatch"
  /\ UNCHANGED <<probe, env, level, changes, now, rtc, loops, retained, transient, history>>
  /\ pushed' = "none"
  /\ ticked' = ticked
  /\ bootLog' = bootLog
  /\ sampled' = <<>>

\* Blynk.run(): the message goes to its handler.  The sketch defines
\* BLYNK_READ handlers only (lines 497-594); they send a value and change
\* nothing.  A write (button press) meets no handler and is dropped.
BlynkDispatch ==
  /\ pc = "dispatch"
  /\ blynkMsg' = NoMsg
  /\ pc' = "rssi"
  /\ UNCHANGED <<probe, env, level, changes, now, rtc, loops, retained, transient, history>>
  /\ pushed' = "none"
  /\ ticked' = ticked
  /\ bootLog' = bootLog
  /\ sampled' = <<>>

\* The clock after a driver or publisher that has read millis() once for
\* its cadence test and, the test passed, a second time for its timestamp.
\* A reading returns the clock value, and env.readStep ms pass.
SecondRead(t) == ClockAdd(t, env.readStep)
ClockAfter(t, due) ==
  IF due THEN ClockAdd(SecondRead(t), env.readStep) ELSE SecondRead(t)

\* measureRssi(): one reading, straight into the filter.
measureRssi ==
  /\ pc = "rssi"
  /\ pc' = "light"
  /\ IF Due("Rssi", now)
     THEN LET st == getValue("Rssi", efInit["Rssi"], efValue["Rssi"], RssiRaw)
          IN /\ tsMeasure' = [tsMeasure EXCEPT !["Rssi"] = SecondRead(now)]
             /\ efInit' = [efInit EXCEPT !["Rssi"] = TRUE]
             /\ efValue' = [efValue EXCEPT !["Rssi"] = st]
             /\ rssiValue' = ToInt(st)
             /\ sampled' = <<"Rssi", 1, 0>>
     ELSE /\ sampled' = <<>>
          /\ UNCHANGED <<tsMeasure, efInit, efValue, rssiValue>>
  /\ now' = ClockAfter(now, Due("Rssi", now))
  /\ UNCHANGED <<probe, env, level, changes, rtc, loops, blynkMsg, retained, value, trend,
                 smooth, tsMeasureOld, cntMeasure, valueOld, statusOld,
                 tsPublish, history>>
  /\ pushed' = "none"
  /\ ticked' = Append(ticked, "Rssi")
  /\ bootLog' = bootLog

\* Lines 418-426: the "Signal LED" switch inside the Water event block; the
\* other drivers have none.
LedAfter(ch, event, s, led) ==
  IF event /\ ch = "Water"
  THEN (IF s = WATER_STATUS_PUMPING THEN "on" ELSE "off")
  ELSE led

\* Statistics for every timestamp that differs from the remembered one.
DoStatisticsAnyOrder(ch, ts) == tsMeasureOld[ch] # 0 /\ ts # tsMeasureOld[ch]

\* Line 261, 325, 388: "else if (tsMeasure > tsMeasureOld)" after the test
\* "tsMeasureOld == 0" has failed.
DoStatistics(ch, ts) ==
  tsMeasureOld[ch] # 0 /\ ClockGreater(ts, tsMeasureOld[ch])

\* Line 265, 329, 393: "++cntMeasure >= COUNT_TREND".
TrendDue(ch) == cntMeasure[ch] + 1 >= CountTrend(ch)

\* A status that follows only a notified change.
StatusAfterEvent(ch, stats, recompute, event, s) ==
  IF event THEN s ELSE status[ch]

\* A status determined outside the trend block, at every statistics cycle.
StatusAfterStats(ch, stats, recompute, event, s) ==
  IF stats THEN s ELSE status[ch]

\* Lines 271-282, 335-344, 398-401: the status is determined inside the
\* trend block.
StatusAfter(ch, stats, recompute, event, s) ==
  IF recompute THEN s ELSE status[ch]

\* What the body of measureLight / measureRain / measureWater computes from
\* the raw readings `reads` of the burst and the timestamp ts, up to the
\* test of "Notify at status change".
Cycle(ch, reads, ts) ==
  LET burst == burstLoop(smooth, ReadsOnOffer(reads), 1)
      median == getMedian(burst[1])
      st == getValue(ch, efInit[ch], efValue[ch], FilterInput(ch, median))
      v == ToInt(st)
      stats == DoStatistics(ch, ts)
      recompute == stats /\ TrendDue(ch)
      tr == IF stats THEN TrendOf(v, valueOld[ch], ts, tsMeasureOld[ch])
            ELSE trend[ch]
      s == StatusOf(ch, v, tr, status[ch])
  IN [burst |-> burst, median |-> median, st |-> st, v |-> v,
      seeding |-> tsMeasureOld[ch] = 0, stats |-> stats,
      recompute |-> recompute, tr |-> tr, s |-> s,
      event |-> recompute /\ StatusChanged(ch, statusOld[ch], s,
                                           Abs(v - valueOld[ch]))]

\* The assignments to the retained extrema and status (lines 262-263 and
\* 272-282, 326-327 and 336-344, 389-391 and 399-401) of a cycle c.
RetainedAfter(ch, c) ==
  /\ valueMin' = IF c.stats
                 THEN [valueMin EXCEPT ![ch] =
                         ExtremaMin(ch, valueMin[ch], valueMax[ch], c.v)]
                 ELSE valueMin
  /\ valueMax' = IF c.stats
                 THEN [valueMax EXCEPT ![ch] =
                         ExtremaMax(ch, valueMax[ch], c.v)]
                 ELSE valueMax
  /\ status' = [status EXCEPT ![ch] =
                  StatusAfter(ch, c.stats, c.recompute, c.event, c.s)]

\* The record of the status-change events and of the values measured.
ObservedAfter(ch, reads, c) ==
  /\ evSeen' = IF c.event THEN [evSeen EXCEPT ![ch] = TRUE] ELSE evSeen
  /\ evValue' = IF c.event THEN [evValue EXCEPT ![ch] = c.v] ELSE evValue
  /\ evPrev' = IF c.event /\ evSeen[ch]
               THEN [evPrev EXCEPT ![ch] = <<evValue[ch]>>] ELSE evPrev
  /\ burstSeen' = IF env.free /\ probe = ch
                  THEN <<SubSeq(reads, 1, c.burst[2]), c.median>>
                  ELSE burstSeen
  /\ evLo' = IF c.event \/ ~evSeen[ch] THEN [evLo EXCEPT ![ch] = c.v]
             ELSE [evLo EXCEPT ![ch] = IF c.v < @ THEN c.v ELSE @]
  /\ evHi' = IF c.event \/ ~evSeen[ch] THEN [evHi EXCEPT ![ch] = c.v]
             ELSE [evHi EXCEPT ![ch] = IF c.v > @ THEN c.v ELSE @]

\* The body of measureLight / measureRain / measureWater once the cadence
\* test has passed, for the raw readings `reads` of the burst and the
\* timestamp ts read at its start, every call of it running to its end (a
\* reset inside the calls of a status-change event is ResetInNotify).
Measurement(ch, reads, ts) ==
  \E c \in {Cycle(ch, reads, ts)} :
     /\ tsMeasure' = [tsMeasure EXCEPT ![ch] = ts]
     /\ smooth' = releaseBuffer(c.burst[1])
     /\ efInit' = [efInit EXCEPT ![ch] = TRUE]
     /\ efValue' = [efValue EXCEPT ![ch] = c.st]
     /\ value' = [value EXCEPT ![ch] = c.v]
     /\ tsMeasureOld' = IF c.seeding \/ c.recompute
                        THEN [tsMeasureOld EXCEPT ![ch] = ts]
                        ELSE tsMeasureOld
     /\ valueOld' = IF c.seeding \/ c.recompute
                    THEN [valueOld EXCEPT ![ch] = c.v]
                    ELSE valueOld
     /\ RetainedAfter(ch, c)
     /\ cntMeasure' = IF c.recompute THEN [cntMeasure EXCEPT ![ch] = 0]
                      ELSE IF c.stats
                      THEN [cntMeasure EXCEPT ![ch] = cntMeasure[ch] + 1]
                      ELSE cntMeasure
     /\ trend' = IF c.recompute THEN [trend EXCEPT ![ch] = c.tr] ELSE trend
     /\ statusOld' = IF c.event THEN [statusOld EXCEPT ![ch] = c.s]
                     ELSE statusOld
     /\ notified' = IF c.event /\ NotifyEnabled(ch)
                    THEN [notified EXCEPT ![ch] = c.s] ELSE notified
     /\ pushed' = IF c.event /\ NotifyEnabled(ch) THEN ch ELSE "none"
     /\ sampled' = <<ch, c.burst[2], 1>>
     /\ ledWaterPump' = LedAfter(ch, c.event, c.s, ledWaterPump)
     /\ nMeasure' = [nMeasure EXCEPT ![ch] = nMeasure[ch] + 1]
     /\ nTrend' = IF c.recompute THEN [nTrend EXCEPT ![ch] = nTrend[ch] + 1]
                  ELSE nTrend
     /\ ObservedAfter(ch, reads, c)

\* The signal of the probe as the readings of a burst show it.
SignalAfter(ch, reads) ==
  /\ level' = IF probe = ch /\ ~env.free THEN LevelOf(reads) ELSE level
  /\ changes' = IF probe = ch /\ ~env.free /\ LevelOf(reads) # level
                THEN changes + 1 ELSE changes

\* A driver tick that writes its measurement into the Light channel's
\* variables, whichever sensor it reads.
DriverTickIntoLight(ch) ==
  /\ IF Due(ch, now)
     THEN \E reads \in Bursts(ch) :
            /\ Measurement("Light", reads, SecondRead(now))
            /\ SignalAfter(ch, reads)
     ELSE /\ pushed' = "none"
          /\ sampled' = <<>>
          /\ UNCHANGED <<level, changes, tsMeasure, smooth, efInit, efValue, value, tsMeasureOld,
                      valueOld, valueMin, valueMax, cntMeasure, trend, status,
                      statusOld, notified, ledWaterPump, nMeasure, nTrend,
                      evSeen, evValue, evPrev, burstSeen, evLo, evHi>>
  /\ now' = ClockAfter(now, Due(ch, now))
  /\ UNCHANGED <<probe, env, rtc, loops, blynkMsg, bootCount, bootTimeLast,
                 bootRunPeriod, rssiValue, tsPublish, nPublish>>
  /\ ticked' = Append(ticked, ch)
  /\ bootLog' = bootLog

\* One tick of a sensor driver: millis() is read for the cadence test and,
\* the test passed, again for the timestamp of the measurement.
DriverTick(ch) ==
  /\ IF Due(ch, now)
     THEN \E reads \in Bursts(ch) :
            /\ Measurement(ch, reads, SecondRead(now))
            /\ SignalAfter(ch, reads)
     ELSE /\ pushed' = "none"
          /\ sampled' = <<>>
          /\ UNCHANGED <<level, changes, tsMeasure, smooth, efInit, efValue, value, tsMeasureOld,
                      valueOld, valueMin, valueMax, cntMeasure, trend, status,
                      statusOld, notified, ledWaterPump, nMeasure, nTrend,
                      evSeen, evValue, evPrev, burstSeen, evLo, evHi>>
  /\ now' = ClockAfter(now, Due(ch, now))
  /\ UNCHANGED <<probe, env, rtc, loops, blynkMsg, bootCount, bootTimeLast,
                 bootRunPeriod, rssiValue, tsPublish, nPublish>>
  /\ ticked' = Append(ticked, ch)
  /\ bootLog' = bootLog

measureLight == pc = "light" /\ pc' = "rain" /\ DriverTick("Light")

\* A process() that calls publishThingspeak right after measureRain.
measureRainThenPublish == pc = "rain" /\ pc' = "publish" /\ DriverTick("Rain")

measureRain == pc = "rain" /\ pc' = "water" /\ DriverTick("Rain")

measureWater == pc = "water" /\ pc' = "publish" /\ DriverTick("Water")

\* A publisher that also fires on its first call, as publishParticle does.
publishThingspeakFirstCall ==
  /\ pc = "publish"
  /\ pc' = "loop"
  /\ LET due == \/ ElapsedAtLeast(now, tsPublish, PERIOD_PUBLISH_THINGSPEAK)
                \/ tsPublish = 0
     IN /\ IF due
           THEN tsPublish' = SecondRead(now) /\ nPublish' = nPublish + 1
           ELSE UNCHANGED <<tsPublish, nPublish>>
        /\ now' = ClockAfter(now, due)
  /\ UNCHANGED <<probe, env, level, changes, rtc, loops, blynkMsg, retained, value, trend,
                 rssiValue, efInit, efValue, smooth, tsMeasure, tsMeasureOld,
                 cntMeasure, valueOld, statusOld, notified, nMeasure, nTrend,
                 ledWaterPump, evSeen, evValue, evPrev, burstSeen, evLo, evHi>>
  /\ pushed' = "none"
  /\ ticked' = <<>>
  /\ bootLog' = bootLog
  /\ sampled' = <<>>

\* publishThingspeak(): no "first call" clause in its cadence test; millis()
\* is read for the test and, the test passed, again for tsPublish.
publishThingspeak ==
  /\ pc = "publish"
  /\ pc' = "loop"
  /\ LET due == ElapsedAtLeast(now, tsPublish, PERIOD_PUBLISH_THINGSPEAK)
     IN /\ IF due
           THEN tsPublish' = SecondRead(now) /\ nPublish' = nPublish + 1
           ELSE UNCHANGED <<tsPublish, nPublish>>
        /\ now' = ClockAfter(now, due)
  /\ UNCHANGED <<probe, env, level, changes, rtc, loops, blynkMsg, retained, value, trend,
                 rssiValue, efInit, efValue, smooth, tsMeasure, tsMeasureOld,
                 cntMeasure, valueOld, statusOld, notified, nMeasure, nTrend,
                 ledWaterPump, evSeen, evValue, evPrev, burstSeen, evLo, evHi>>
  /\ pushed' = "none"
  /\ ticked' = <<>>
  /\ bootLog' = bootLog
  /\ sampled' = <<>>

\* Warm reset (watchdog or software) between two steps of the sketch:
\* retained memory survives, everything else restarts, millis() restarts at
\* 0 and setup() runs again.  The watchdog is started at the end of setup()
\* (line 218).
WarmReset ==
  /\ pc # "setup"
  /\ bootCount < env.maxBoots
  /\ pc' = "setup"
  /\ now' = 0
  /\ loops' = 0
  /\ blynkMsg' = NoMsg
  /\ TransientReset
  /\ nMeasure' = [ch \in Sensors |-> 0]
  /\ nTrend' = [ch \in Sensors |-> 0]
  /\ nPublish' = 0
  /\ UNCHANGED <<probe, env, level, changes, rtc, retained, notified, ledWaterPump,
                 evSeen, evValue, evPrev, burstSeen, evLo, evHi>>
  /\ pushed' = "none"
  /\ ticked' = <<>>
  /\ bootLog' = bootLog
  /\ sampled' = <<>>

\* The position of the sketch at the call of a sensor driver.
DriverPc(ch) ==
  CASE ch = "Light" -> "light" [] ch = "Rain" -> "rain" [] ch = "Water" -> "water"

\* How far the network calls of a status-change event have got when a reset
\* cuts the cycle off: the notification has not gone out, it has gone out,
\* or (Water) the LED has been switched as well.
ResetStages(ch) ==
  IF ch = "Water" THEN {"unsent", "sent", "led"} ELSE {"unsent", "sent"}

\* A warm reset that lands inside Blynk.notify (lines 363, 417), a network
\* call of a driver whose cycle has found a status change, or, for Water,
\* inside the LED call that follows it (lines 419-426): the retained
\* extrema and status are written, the notification has gone out or not,
\* the LED is switched only if its call has taken effect, and the
\* restarted firmware initialises the static statusOld from the retained
\* status that the interrupted cycle has written.
ResetInNotify(ch) ==
  /\ pc = DriverPc(ch)
  /\ NotifyEnabled(ch)
  /\ bootCount < env.maxBoots
  /\ Due(ch, now)
  /\ \E reads \in Bursts(ch), stage \in ResetStages(ch) :
       \E c \in {Cycle(ch, reads, SecondRead(now))} :
          /\ c.event
          /\ RetainedAfter(ch, c)
          /\ ObservedAfter(ch, reads, c)
          /\ SignalAfter(ch, reads)
          /\ sampled' = <<ch, c.burst[2], 1>>
          /\ notified' = IF stage # "unsent"
                         THEN [notified EXCEPT ![ch] = c.s] ELSE notified
          /\ pushed' = IF stage # "unsent" THEN ch ELSE "none"
          /\ ledWaterPump' = LedAfter(ch, stage = "led", c.s, ledWaterPump)
  /\ pc' = "setup"
  /\ now' = 0
  /\ loops' = 0
  /\ blynkMsg' = NoMsg
  /\ TransientZero
  /\ statusOld' = status'
  /\ nMeasure' = [x \in Sensors |-> 0]
  /\ nTrend' = [x \in Sensors |-> 0]
  /\ nPublish' = 0
  /\ UNCHANGED <<probe, env, rtc, bootCount, bootTimeLast, bootRunPeriod>>
  /\ ticked' = <<>>
  /\ bootLog' = bootLog

RainNotifyReset == ResetInNotify("Rain")

WaterNotifyReset == ResetInNotify("Water")

Next ==
  \/ setup
  \/ loop
  \/ BlynkReceive
  \/ BlynkDispatch
  \/ measureRssi
  \/ measureLight
  \/ measureRain
  \/ measureWater
  \/ publishThingspeak
  \/ WarmReset
  \/ RainNotifyReset
  \/ WaterNotifyReset

Spec == Init /\ [][Next]_vars

SpecRuns == InitRuns /\ [][Next]_vars

SpecWrap == InitWrap /\ [][Next]_vars

SpecLate == InitLate /\ [][Next]_vars


\* ------------------------------------------------------------------ claims
ValueBucket == {"Light", "Rain"}

Margin(ch) ==
  IF ch = "Light" THEN LIGHT_VALUE_MARGIN ELSE RAIN_VALUE_MARGIN

BucketOf(ch, v) == IF ch = "Light" THEN LightStatusOf(v) ELSE RainStatusOf(v)

Min2(a, b) == IF a < b THEN a ELSE b
Max2(a, b) == IF a > b THEN a ELSE b

\* Kinds of step, told from the two states of the step.
MeasureStep(ch) == nMeasure'[ch] = nMeasure[ch] + 1
RecomputeStep(ch) == nTrend'[ch] = nTrend[ch] + 1
EventStep(ch) == MeasureStep(ch) /\ statusOld'[ch] # statusOld[ch]
WarmResetStep == pc # "setup" /\ pc' = "setup"
\* A warm reset that cuts off the cycle of the driver of ch in Blynk.notify.
InterruptedStep(ch) ==
  WarmResetStep /\ sampled' # <<>> /\ sampled'[1] = ch

\* C1: over measurement cycles and warm resets after a cold power-up the
\* retained minimum of every sensor never increases and the retained maximum
\* never decreases (the sketch has no step that resets the extrema).
C1_ExtremaMonotone ==
  [][\A ch \in Sensors :
       valueMin'[ch] <= valueMin[ch] /\ valueMax'[ch] >= valueMax[ch]]_vars

\* C2: after every measurement cycle of a process run but the first,
\* min <= filtered value <= max for every sensor.
C2_ValueWithinExtrema ==
  \A ch \in Sensors :
    nMeasure[ch] >= 2 =>
      valueMin[ch] <= value[ch] /\ value[ch] <= valueMax[ch]

\* C3: after the first measurement cycle following a cold power-up both
\* extrema of a sensor equal its filtered value.
C3_FirstReadingSeedsExtrema ==
  \A ch \in Sensors :
    (bootCount = 1 /\ nMeasure[ch] = 1) =>
      valueMin[ch] = value[ch] /\ valueMax[ch] = value[ch]

\* C4: a reset-extremes request of the mobile application for a sensor puts
\* that sensor's min and max back to their initial (pending) values.
C4_ResetExtremesReseeds ==
  [][(pc = "dispatch" /\ blynkMsg[1] = "resetExtremes") =>
       /\ valueMin'[blynkMsg[2]] = ValueMinInit(blynkMsg[2])
       /\ valueMax'[blynkMsg[2]] = ValueMaxInit(blynkMsg[2])]_vars

\* C5: a warm reset leaves the retained min, max, status and boot variables
\* unchanged (those of a channel whose driver the reset cuts off are as the
\* driver has written them), returns every transient variable of the
\* pipeline to its initial value and takes the last-notified status from the
\* retained status; a cold power-up starts with min 4096 (Light, Rain) or
\* 100 (Water) and max 0.
C5_WarmResetFrame ==
  /\ valueMin = [ch \in Sensors |-> IF ch = "Water" THEN 100 ELSE 4096]
  /\ valueMax = [ch \in Sensors |-> 0]
  /\ [][WarmResetStep =>
          /\ \A ch \in Sensors : ~InterruptedStep(ch) =>
               /\ valueMin'[ch] = valueMin[ch]
               /\ valueMax'[ch] = valueMax[ch]
               /\ status'[ch] = status[ch]
          /\ <<bootCount, bootTimeLast, bootRunPeriod>>'
               = <<bootCount, bootTimeLast, bootRunPeriod>>
          /\ tsMeasure' = [f \in Filters |-> 0]
          /\ tsPublish' = 0
          /\ \A ch \in Sensors :
               /\ cntMeasure'[ch] = 0
               /\ valueOld'[ch] = 0
               /\ tsMeasureOld'[ch] = 0
               /\ trend'[ch] = <<0, 1>>
               /\ statusOld'[ch] = status'[ch]
          /\ \A f \in Filters : ~efInit'[f] /\ efValue'[f] = <<0, 0>>]_vars

\* A warm reset has happened with extrema and status already measured.
C5_Witness ==
  /\ pc = "setup" /\ bootCount = 1
  /\ status[probe] # 0
  /\ valueMin[probe] # ValueMinInit(probe)
  /\ valueMax[probe] # ValueMaxInit(probe)


\* C6 (as stated): for Light and Rain a status-change event fires only when
\* the new status differs from the last-notified one and the filtered value
\* differs by at least the margin from the filtered value at the last event.
C6_EventAgainstLastEventValue ==
  [][\A ch \in ValueBucket :
       EventStep(ch) =>
         /\ status'[ch] # statusOld[ch]
         /\ evSeen[ch] => Abs(value'[ch] - evValue[ch]) >= Margin(ch)]_vars

\* C6 (amended): for Light and Rain a status-change event fires only when the
\* new status differs from the last-notified one and the filtered value
\* differs by at least the margin from the value remembered at the previous
\* trend recomputation (or at the seeding measurement).
C6_EventAgainstRememberedValue ==
  [][\A ch \in ValueBucket :
       EventStep(ch) =>
         /\ status'[ch] # statusOld[ch]
         /\ Abs(value'[ch] - valueOld[ch]) >= Margin(ch)]_vars

\* A second event has fired on the probe less than the margin away from the
\* value of the event before it, the remembered value lying further away.
C6_Witness ==
  \E ch \in ValueBucket :
    /\ evPrev[ch] # <<>>
    /\ value[ch] = evValue[ch]
    /\ valueOld[ch] = value[ch]
    /\ cntMeasure[ch] = 0
    /\ statusOld[ch] = status[ch]
    /\ Abs(evValue[ch] - evPrev[ch][1]) < Margin(ch)

\* C7: for Light and Rain no two status-change events fire while the filtered
\* value stays within a span narrower than the margin: from one event to the
\* next, both included, the measured values spread over at least the margin.
C7_OneEventPerOscillation ==
  [][\A ch \in ValueBucket :
       (EventStep(ch) /\ evSeen[ch]) =>
         Max2(evHi[ch], value'[ch]) - Min2(evLo[ch], value'[ch])
           >= Margin(ch)]_vars

\* After an event the value has kept within a span narrower than the margin
\* over two further recomputations, the bucket has changed, no event fired.
C7_Witness ==
  \E ch \in ValueBucket :
    /\ evSeen[ch]
    /\ evHi[ch] - evLo[ch] < Margin(ch)
    /\ evLo[ch] < evHi[ch]
    /\ status[ch] # statusOld[ch]
    /\ BucketOf(ch, evLo[ch]) # BucketOf(ch, evHi[ch])

\* C8 (as stated): for Light and Rain the status field takes a new value
\* only in a cycle where the filtered value differs by at least the margin
\* from the value it is compared against.
C8_StatusNeedsMargin ==
  [][\A ch \in ValueBucket :
       status'[ch] # status[ch] =>
         Abs(value'[ch] - valueOld[ch]) >= Margin(ch)]_vars

\* C8 (amended): at a trend recomputation backed by a value change smaller
\* than the margin the last-notified status stays as it is, while the status
\* field takes the bucket of the current filtered value.
C8_MarginGatesOnlyNotified ==
  [][\A ch \in ValueBucket :
       (RecomputeStep(ch) /\ Abs(value'[ch] - valueOld[ch]) < Margin(ch)) =>
         /\ statusOld'[ch] = statusOld[ch]
         /\ status'[ch] = BucketOf(ch, value'[ch])]_vars

\* The status field has moved to another bucket on a small value change and
\* the last-notified status has not followed.
C8_Witness ==
  \E ch \in ValueBucket :
    /\ nTrend[ch] >= 1
    /\ cntMeasure[ch] = 0
    /\ status[ch] = BucketOf(ch, value[ch])
    /\ statusOld[ch] # status[ch]
    /\ statusOld[ch] # 0

\* C9: the status of a sensor changes only in a step that recomputes the
\* sensor's trend (a cycle that is cut off by a reset after the
\* recomputation included).
C9_StatusOnlyWithTrend ==
  [][\A ch \in Sensors :
       status'[ch] # status[ch] =>
         /\ RecomputeStep(ch) \/ InterruptedStep(ch)
         /\ cntMeasure[ch] + 1 >= CountTrend(ch)]_vars

\* Every sensor's status has been determined, the Water status has moved
\* from one determined status to another.
C9_Witness ==
  /\ \A ch \in Sensors : status[ch] # 0
  /\ nTrend["Water"] >= 2
  /\ status["Water"] # statusOld["Water"] \/ notified["Water"] # 0
  /\ status["Water"] = WATER_STATUS_PUMPING

\* C10: within a process run the trend recomputations of a sensor fall
\* exactly on the measurement cycles 1 + K, 1 + 2K, ...: after n >= 1
\* measurement cycles the trend has been recomputed (n - 1) div K times.
C10_RecomputeEveryK ==
  \A ch \in Sensors :
    nMeasure[ch] >= 1 =>
      nTrend[ch] = (nMeasure[ch] - 1) \div CountTrend(ch)


\* C11: the trend recomputed at a reading (v2, t2) after the remembered
\* reading (v1, t1), t2 > t1, equals 60000 * (v2 - v1) / (t2 - t1).
C11_TrendIsExactQuotient ==
  [][\A ch \in Sensors :
       RecomputeStep(ch) =>
         LET dv == value'[ch] - valueOld[ch]
             dt == tsMeasure'[ch] - tsMeasureOld[ch]
         IN /\ dt > 0
            /\ trend'[ch][2] > 0
            /\ trend'[ch] = Frac(60000 * dv, dt)]_vars

\* C12: whenever a trend is recomputed, the elapsed time it is divided by
\* is strictly positive: the measurement timestamp is greater than the
\* remembered one, and so is the divisor the division uses (the difference
\* of the two timestamps as floats).
C12_DivisorPositive ==
  [][\A ch \in Sensors :
       RecomputeStep(ch) =>
         /\ ClockGreater(tsMeasure'[ch], tsMeasureOld[ch])
         /\ FloatDiff(ToFloat(tsMeasure'[ch]),
                      ToFloat(tsMeasureOld[ch]))[1] > 0]_vars

\* C13: at every Water trend recomputation the status is one of the three
\* and is decided by the trend alone: stable iff |trend| <= 1.5, filling iff
\* trend > 1.5, pumping iff trend < -1.5.
C13_WaterStatusByTrend ==
  [][RecomputeStep("Water") =>
       LET t == trend'["Water"]
           s == status'["Water"]
       IN /\ s \in {WATER_STATUS_STABLE, WATER_STATUS_FILLING,
                    WATER_STATUS_PUMPING}
          /\ s = WATER_STATUS_STABLE <=>
               FracLeq(FracAbs(t), WATER_TREND_MARGIN)
          /\ s = WATER_STATUS_FILLING <=> FracLess(WATER_TREND_MARGIN, t)
          /\ s = WATER_STATUS_PUMPING <=>
               FracLess(t, FracNeg(WATER_TREND_MARGIN))]_vars

\* The ascending thresholds of a value-bucket sensor.
ThresholdsOf(ch) ==
  IF ch = "Light"
  THEN <<LIGHT_VALUE_DARK, LIGHT_VALUE_TWILIGHT, LIGHT_VALUE_CLOUDY,
         LIGHT_VALUE_CLEAR>>
  ELSE <<RAIN_VALUE_DRY, RAIN_VALUE_DEW, RAIN_VALUE_RAIN>>

\* C14: at every Light or Rain trend recomputation the status is the index
\* of the first ascending threshold the filtered value is <=, i.e. one more
\* than the number of thresholds below the value; the last bucket catches
\* everything above the last threshold.
C14_StatusIsFirstThreshold ==
  [][\A ch \in ValueBucket :
       RecomputeStep(ch) =>
         status'[ch] =
           1 + Cardinality({i \in DOMAIN ThresholdsOf(ch) :
                              value'[ch] > ThresholdsOf(ch)[i]})]_vars

\* Both sensors at the top of the ADC range have been classified into
\* their last bucket.
C14_Witness ==
  /\ value["Light"] = 4095 /\ nTrend["Light"] >= 1
  /\ status["Light"] = LIGHT_STATUS_SUNNY
  /\ value["Rain"] = 4095 /\ nTrend["Rain"] >= 1
  /\ status["Rain"] = RAIN_STATUS_SHOWER

\* A step in which the driver of sensor ch sends a push notification.
NotifyStep(ch) == pushed' = ch

\* C15: a status-change event happens only when the new status differs from
\* the last-notified one, so no two consecutive notifications of a sensor
\* carry the same status, warm resets included.
C15_NoRepeatedNotification ==
  [][\A ch \in Sensors : NotifyStep(ch) =>
       /\ status'[ch] # statusOld[ch]
       /\ notified[ch] # 0 => notified'[ch] # notified[ch]]_vars

\* C15 as the code has it: a notification is sent only in a trend
\* recomputation (one that a reset cuts off after the notification has gone
\* out included) whose status differs from the last-notified status of the
\* running process, and carries that status, which becomes the last-notified
\* one; a notified status is repeated only in the first notification after
\* a warm reset, and for the Water level only if a warm reset has cut off a
\* Water notification.
C15_NotificationOnChangeWithinRun ==
  /\ [][\A ch \in Sensors : NotifyStep(ch) =>
          /\ RecomputeStep(ch) \/ (InterruptedStep(ch) /\ TrendDue(ch))
          /\ status'[ch] # statusOld[ch]
          /\ notified'[ch] = status'[ch]
          /\ statusOld'[ch] = status'[ch]
          /\ notified[ch] # 0 /\ notified'[ch] = notified[ch] =>
               /\ ch \in {"Rain", "Water"}
               /\ bootCount > 1
               /\ evSeen[ch]
               /\ statusOld[ch] # notified[ch]]_vars
  /\ [][(statusOld'["Water"] # notified'["Water"]
          /\ statusOld["Water"] = notified["Water"])
         => InterruptedStep("Water")]_vars

\* Rain is notified as dry for the second time in a row, after a warm reset.
C15_Witness ==
  /\ pushed = "Rain"
  /\ bootCount = 2
  /\ notified["Rain"] = RAIN_STATUS_DRY
  /\ statusOld["Rain"] = RAIN_STATUS_DRY
  /\ evPrev["Rain"] # <<>>
  /\ evPrev["Rain"][1] = evValue["Rain"]

\* C16: the pump LED is switched only by a Water status-change event, on
\* for pumping and off otherwise, and in every state after the first Water
\* notification it is on exactly when the last-notified Water status is
\* pumping, warm resets included.
C16_LedFollowsWaterEvents ==
  /\ [](notified["Water"] # 0 =>
          (ledWaterPump = "on" <=> statusOld["Water"] = WATER_STATUS_PUMPING))
  /\ [][/\ ledWaterPump' # ledWaterPump => NotifyStep("Water")
        /\ NotifyStep("Water") =>
             (ledWaterPump' = "on" <=> statusOld'["Water"] = WATER_STATUS_PUMPING)]_vars

\* The readings of a burst in ascending order, by insertion.
RECURSIVE SortedInsert(_, _)
SortedInsert(x, sorted) ==
  IF sorted = <<>> THEN <<x>>
  ELSE IF x <= Head(sorted) THEN <<x>> \o sorted
  ELSE <<Head(sorted)>> \o SortedInsert(x, Tail(sorted))

RECURSIVE SortedBurst(_)
SortedBurst(seq) ==
  IF seq = <<>> THEN <<>> ELSE SortedInsert(Head(seq), SortedBurst(Tail(seq)))

\* A measurement of the sensor whose readings are observed.
FreeMeasureStep(ch) == MeasureStep(ch) /\ env.free /\ probe = ch

\* C17: in every measurement exactly BurstSize raw readings are taken, and
\* the median handed to the filter is the element at sorted position
\* (BurstSize - 1) / 2 of those readings; on the first measurement of a run
\* the filtered value shows it.
C17_MedianIsSortedMiddle ==
  [][\A ch \in Sensors : FreeMeasureStep(ch) =>
       LET reads == burstSeen'[1]
           median == burstSeen'[2]
           N == Len(reads)
       IN /\ N = BurstSize
          /\ N % 2 = 1
          /\ median = SortedBurst(reads)[(N - 1) \div 2 + 1]
          /\ ~efInit[ch] => value'[ch] = FilterInput(ch, median)]_vars

\* The burst of the Light scenario: no reading has a majority.
C17_Witness ==
  /\ env.free
  /\ probe = "Light"
  /\ burstSeen = <<<<10, 12, 11, 13, 12>>, 12>>
  /\ nMeasure["Light"] = 1
  /\ value["Light"] = 12

\* C18: the smoother shared by the three drivers holds no readings between
\* the steps of the sketch, that is at the start and at the end of every
\* driver tick, whatever the cadences and whichever driver measured last.
C18_SmootherEmptyBetweenTicks == smooth = <<>>

\* All three drivers have measured several times, at different cadences, and
\* the last measurement read a burst of differing readings.
C18_Witness ==
  /\ env.free
  /\ smooth = <<>>
  /\ \A ch \in Sensors : nMeasure[ch] >= 1
  /\ nMeasure["Rain"] > nMeasure["Light"]
  /\ pc = "publish"
  /\ probe = "Water"
  /\ burstSeen # <<>>
  /\ Cardinality({burstSeen[1][i] : i \in 1..BurstSize}) > 1

\* A step in which filter f is applied, and the sample it is applied to:
\* the RSSI reading, or the (inverted) median of the burst of a sensor.
FilterStep(f) ==
  IF f = "Rssi" THEN pc = "rssi" /\ pc' = "light" /\ efInit'[f] /\
                     (~efInit[f] \/ tsMeasure'[f] # tsMeasure[f])
  ELSE MeasureStep(f)

FilterSample(f) ==
  IF f = "Rssi" THEN RssiRaw
  ELSE FilterInput(f, IF probe # f THEN env.steady[f]
                      ELSE IF env.free THEN burstSeen'[2] ELSE level')

\* The smoothing factors in tenths, as the claim lists them.
FactorClaimed(f) ==
  CASE f = "Rssi" -> 1 [] f = "Light" -> 2 [] f = "Rain" -> 5 [] f = "Water" -> 8

\* "a < b" of two floats.
FloatLess(a, b) ==
  IF Sign(a[1]) # Sign(b[1]) THEN Sign(a[1]) < Sign(b[1])
  ELSE IF a[1] > 0 THEN a[2] < b[2] \/ (a[2] = b[2] /\ a[1] < b[1])
  ELSE a[2] > b[2] \/ (a[2] = b[2] /\ a[1] < b[1])

\* A float in units of 1 / FixedUnit, cut off toward zero.
FixedUnit == Half
Fixed(a) ==
  IF a[2] + FloatBits \div 2 >= 0 THEN a[1] * 2 ^ (a[2] + FloatBits \div 2)
  ELSE IF a[2] + FloatBits \div 2 <= 0 - FloatBits THEN 0
  ELSE Sign(a[1]) * (Abs(a[1]) \div 2 ^ (0 - a[2] - FloatBits \div 2))

\* C19: the first output of a filter after process start is its first input;
\* every later output is factor * input + (1 - factor) * previous state (to
\* two units of 1 / FixedUnit, the resolution at which the float states are
\* compared with the decimal factors) and lies in the closed interval between
\* the previous state and the input.
C19_FilterSeedsThenBlends ==
  [][\A f \in Filters : FilterStep(f) =>
       LET x == FilterSample(f)
           exact10 == FactorClaimed(f) * x * FixedUnit
                      + (10 - FactorClaimed(f)) * Fixed(efValue[f])
       IN IF ~efInit[f]
          THEN /\ efValue'[f] = IntToFloat(x)
               /\ f \in Sensors => value'[f] = x
          ELSE /\ Abs(10 * Fixed(efValue'[f]) - exact10) <= 2 * 10
               /\ ~FloatLess(efValue'[f], efValue[f])
                    \/ ~FloatLess(efValue'[f], IntToFloat(x))
               /\ ~FloatLess(efValue[f], efValue'[f])
                    \/ ~FloatLess(IntToFloat(x), efValue'[f])]_vars

\* The Rain filter (factor 0.5), seeded with 61, has blended in a median of
\* 66: state 63.5 = 127 / 2, filtered value 63.
C19_Witness ==
  /\ env.free
  /\ probe = "Rain"
  /\ nMeasure["Rain"] = 2
  /\ burstSeen[2] = 66
  /\ efValue["Rain"] = FloatOf(1, 127, 0 - 1)
  /\ value["Rain"] = 63

\* A driver tick: the step in which the driver of filter f runs its cadence
\* test.
TickStep(f) ==
  CASE f = "Rssi" -> pc = "rssi" /\ pc' = "light"
    [] f = "Light" -> pc = "light" /\ pc' = "rain"
    [] f = "Rain" -> pc = "rain" /\ pc' = "water"
    [] f = "Water" -> pc = "water" /\ pc' = "publish"

\* C20: a driver measures on its first tick of a run, and on a later tick
\* if and only if at least its cadence has elapsed since its previous
\* measurement; so two consecutive measurements of a run are never less than
\* a cadence apart, at whatever clock value they are taken.
C20_MeasuredIffCadenceElapsed ==
  [][\A f \in Filters : TickStep(f) =>
       IF ~efInit[f] THEN FilterStep(f)
       ELSE FilterStep(f) <=>
              ElapsedAtLeast(now, tsMeasure[f], PeriodMeasure(f))]_vars

\* The order of one scheduler iteration: loop() tickles the watchdog, then
\* process() ticks the four drivers.
IterationOrder == <<"tickle", "Rssi", "Light", "Rain", "Water">>

\* C21: in every scheduler iteration the watchdog is tickled once and the
\* drivers of RSSI, Light, Rain and Water are ticked once each, in that
\* order, before the ThingSpeak publisher runs its test; nothing is ticked
\* twice between two tickles.
C21_IterationOrder ==
  /\ [](/\ Len(ticked) <= Len(IterationOrder)
        /\ ticked = SubSeq(IterationOrder, 1, Len(ticked))
        /\ pc = "publish" => ticked = IterationOrder)
  /\ [][/\ (pc = "publish" /\ pc' = "loop") => ticked = IterationOrder
        /\ \A f \in Filters : TickStep(f) =>
             /\ ticked' = Append(ticked, f)
             /\ \A i \in 1..Len(ticked) : ticked[i] # f
        /\ (pc = "loop" /\ pc' = "blynk") => ticked' = <<"tickle">>]_vars

\* The publisher is about to run its test in an iteration after a warm
\* reset that broke off an iteration between two driver ticks.
C21_Witness ==
  /\ pc = "publish"
  /\ ticked = IterationOrder
  /\ bootCount = 2
  /\ loops >= 2
  /\ nMeasure["Rain"] > nMeasure["Light"]

\* A run of setup().
SetupStep == pc = "setup" /\ pc' = "loop"

\* C22: after setup() the boot counter is the number of boots since the cold
\* power-up; the run period is assigned on every boot but the first, as the
\* time setup() reads first minus the time the boot before has stored (its
\* second reading), and by nothing else.
C22_BootBookkeeping ==
  /\ [](/\ pc # "setup" => bootCount = Len(bootLog)
        /\ bootLog # <<>> => bootTimeLast = bootLog[Len(bootLog)][2])
  /\ [][/\ SetupStep =>
             /\ bootCount' = bootCount + 1
             /\ bootLog = <<>> => bootCount' = 1 /\ bootRunPeriod' = bootRunPeriod
             /\ bootLog # <<>> =>
                  bootRunPeriod' =
                    bootLog'[Len(bootLog')][1] - bootLog[Len(bootLog)][2]
        /\ ~SetupStep => bootCount' = bootCount /\ bootRunPeriod' = bootRunPeriod]_vars

\* The fourth boot, with different run periods behind it.
C22_Witness ==
  /\ pc = "loop"
  /\ bootCount = BootResets + 1
  /\ Len(bootLog) = BootResets + 1
  /\ bootRunPeriod = 1 + BootGap
  /\ bootLog[2][1] = bootLog[1][2]
  /\ bootLog[3][2] = bootLog[3][1] + 1

\* The state the sketch keeps per sensor for trend, status and extrema.
SensorBook == <<value, trend, status, valueMin, valueMax, cntMeasure,
                valueOld, tsMeasureOld, statusOld>>

\* C23: every RSSI measurement takes a completed burst, reduces it to its
\* median and filters the median, as the sensor drivers do, and keeps no
\* trend, status or extrema.
C23_RssiThroughSmoother ==
  [][FilterStep("Rssi") =>
       /\ sampled' = <<"Rssi", BurstSize, 1>>
       /\ SensorBook' = SensorBook]_vars

\* C24: the burst loop of every measurement ends: registerData answers TRUE
\* for the first BurstSize - 1 readings and FALSE for the last, so that a
\* measurement takes exactly BurstSize readings although more are on offer,
\* reads one median and goes on to the filter.
C24_BurstLoopEnds ==
  [][\A ch \in Sensors : MeasureStep(ch) =>
       /\ sampled' = <<ch, BurstSize, 1>>
       /\ efInit'[ch]
       /\ tsMeasure'[ch] = SecondRead(now)
       /\ FreeMeasureStep(ch) =>
            LET reads == burstSeen'[1]
            IN /\ Len(reads) = BurstSize
               /\ \A k \in 1..Len(reads) :
                    registerData(SubSeq(reads, 1, k - 1), reads[k])[2]
                      <=> k < BurstSize
               /\ ~efInit[ch] =>
                    efValue'[ch] = IntToFloat(FilterInput(ch, burstSeen'[2]))]_vars

\* The third consecutive burst of the Water sensor has been completed.
C24_Witness ==
  /\ env.free
  /\ probe = "Water"
  /\ sampled = <<"Water", BurstSize, 1>>
  /\ nMeasure["Water"] = BurstLoops
  /\ Len(burstSeen[1]) = BurstSize
  /\ burstSeen[1][1] # burstSeen[1][BurstSize]

\* C25: a tick of one driver leaves the filtered value, trend, status,
\* extrema, trend counter, remembered value and timestamp and last-notified
\* status of every other channel as they are, and the retained extrema and
\* status of a channel change only in a tick of its own driver.
C25_DriverFrame ==
  [][/\ \A f \in Filters : TickStep(f) =>
          \A ch \in Sensors \ {f} :
            /\ \A b \in 1..Len(SensorBook) : SensorBook'[b][ch] = SensorBook[b][ch]
            /\ notified'[ch] = notified[ch]
     /\ \A ch \in Sensors :
          (\/ valueMin'[ch] # valueMin[ch]
           \/ valueMax'[ch] # valueMax[ch]
           \/ status'[ch] # status[ch]) =>
            TickStep(ch) \/ InterruptedStep(ch)]_vars

\* A Rain tick has just notified a status change while the Light and Water
\* channels hold trends and statuses of their own.
C25_Witness ==
  /\ pushed = "Rain"
  /\ pc = "water"
  /\ nTrend["Light"] >= 1
  /\ nTrend["Water"] >= 1
  /\ status["Light"] # 0
  /\ status["Water"] # 0
  /\ valueMax["Light"] > 0

\* C26: after every Water extrema update the retained Water minimum is
\* negative only if the filtered Water value of that measurement is negative,
\* a negative minimum found at the start of the update having first been
\* replaced by the current maximum; the retained Water maximum is never
\* negative, the sentinel distance 95 (level -6) included.
C26_WaterExtremaSign ==
  /\ [](valueMax["Water"] >= 0)
  /\ [][(MeasureStep("Water") /\ DoStatistics("Water", tsMeasure'["Water"])) =>
          /\ valueMin'["Water"] < 0 => value'["Water"] < 0
          /\ valueMin["Water"] < 0 =>
               valueMin'["Water"] = Min2(valueMax["Water"], value'["Water"])]_vars

\* The filtered Water level has been negative in an extrema update, so the
\* retained minimum is negative, while the maximum is a level seen before.
C26_Witness ==
  /\ valueMin["Water"] < 0
  /\ value["Water"] < 0
  /\ valueMax["Water"] > 0
  /\ nMeasure["Water"] >= 3

\* C27: a measurement whose timestamp is not greater than the remembered,
\* non-zero old timestamp (as after the wrap of the clock) updates only the
\* filtered value and the cadence timestamp: minimum, maximum, trend, status,
\* trend counter, remembered value and timestamp and last-notified status
\* stay as they are, on that and on every later such measurement.
C27_FrozenAfterWrap ==
  [][\A ch \in Sensors :
       (/\ MeasureStep(ch)
        /\ tsMeasureOld[ch] # 0
        /\ ~ClockGreater(tsMeasure'[ch], tsMeasureOld[ch])) =>
         /\ tsMeasure'[ch] = SecondRead(now)
         /\ \A b \in 2..Len(SensorBook) : SensorBook'[b][ch] = SensorBook[b][ch]
         /\ notified'[ch] = notified[ch]
         /\ nTrend'[ch] = nTrend[ch]]_vars

\* After the wrap a channel has measured with a timestamp below the
\* remembered one, and its filtered value has left the range of the frozen
\* extrema.
C27_Witness ==
  \E ch \in Sensors :
    /\ tsMeasureOld[ch] # 0
    /\ ClockGreater(tsMeasureOld[ch], tsMeasure[ch])
    /\ nTrend[ch] >= 1
    /\ \/ value[ch] > valueMax[ch]
       \/ value[ch] < valueMin[ch]

\* A call of publishThingspeak() that writes the fields.
PublicationStep == pc = "publish" /\ nPublish' = nPublish + 1

\* C28: every ThingSpeak publication of a run happens at least 60000 ms after
\* the clock read 0 at the start of the run and at least 60000 ms after the
\* previous publication, and only when Light, Rain and Water have each
\* measured in that run, so every published filtered value is seeded.
C28_PublicationTiming ==
  /\ [](now >= loops * env.tick /\ tsPublish <= now)
  /\ [][PublicationStep =>
          /\ now >= PERIOD_PUBLISH_THINGSPEAK
          /\ now - tsPublish >= PERIOD_PUBLISH_THINGSPEAK
          /\ tsPublish' >= now
          /\ \A ch \in Sensors : nMeasure[ch] >= 1 /\ efInit[ch]]_vars

\* A second publication of a run has been made.
C28_Witness ==
  /\ nPublish >= 2
  /\ pc = "loop"
  /\ tsPublish = now
  /\ tsPublish >= 2 * PERIOD_PUBLISH_THINGSPEAK

====
